---- MODULE Spec2Model ----
(***************************************************************************)
(* Model of the Minecraft server lifecycle controller                      *)
(* (src/extensions/models/minecraft_server.ts).                            *)
(*                                                                         *)
(* The remote host is the environment: a named tmux session, the hosted    *)
(* java process (identified by its pid), and the append-only log file.     *)
(* Every `await sshExecRaw(...)` of a method is one atomic step of the     *)
(* controller; the environment may change between any two steps.  Inside   *)
(* the two bounded waits the clock `now` is Date.now() relative to the     *)
(* loop's start, in seconds: a sleep adds its interval, a remote command   *)
(* adds its round-trip time, between 0 and MaxLatency seconds.             *)
(***************************************************************************)
EXTENDS Integers, Sequences, FiniteSets, TLC

\* ------------------------------------------------------------------ bounds
MaxLatency == 1          \* longest round trip of one remote command, seconds
MaxGen     == 2          \* java processes ever spawned on the host
MaxLog     == 2          \* lines the log file may hold
MaxOps     == 2          \* invocations recorded in the history (SpecStop)
MaxPending == 1          \* unanswered 'list' commands in the console
MaxText    == 4          \* characters after "players online:" (SpecParse)
MaxOverlap == 6          \* seconds into a wait up to which a call is cut in on (SpecOverlap)
MaxDigits  == 2          \* digits of a player count (SpecParse)

\* ------------------------------------------------------- program constants
PollTimeout      == 90   \* stopMinecraftServer: pollTimeout
StopPollInterval == 3    \* stopMinecraftServer: setTimeout(r, 3000)
ReadyTimeout     == 900  \* startMinecraftServer: readyTimeout
ReadyPoll        == 5    \* startMinecraftServer: readyPoll
WarnCount        == 3    \* warnShutdown: for (i = 0; i < 3; i++)

VARIABLES
  \* the remote host
  session,      \* the named tmux session exists
  javaPid,      \* pid of the hosted java process, 0 when none runs
  gen,          \* pids handed out so far (each spawn gets a new pid)
  log,          \* the log file, a sequence of lines
  pending,      \* 'list' commands typed into the console, not yet answered
  \* the controller: one invocation at a time
  pc,           \* position inside the running method, "idle" between calls
  op,           \* the method being executed
  host,         \* globalArgs.sshHost: "none", "down" (unreachable), "up"
  arg,          \* the method's string argument: "empty" or "text"
  now,          \* Date.now() - pollStart / readyStart, seconds
  tmuxExists,   \* stop: tmuxCheck.stdout.trim() === "exists"
  javaRunning,  \* stop: javaCheck.stdout.trim() === "running"
  originalPid,  \* stop: the tracked pid, 0 for the empty string
  timedOut,     \* stop: let timedOut
  serverReady,  \* start: let serverReady
  wcResult,     \* status / collectMetrics: wcResult.stdout as parseInt reads it
  lineCount,    \* status / collectMetrics: the watermark
  newLines,     \* status / collectMetrics: tailResult.stdout
  sink,         \* records written by context.writeResource in this call
  err,          \* the Error thrown by this call, "none" when none
  startOutput,  \* start: startOutput.stdout inside the thrown message, "" if none
  \* observations of the run (history variables)
  remote,       \* some sshExecRaw / waitForSsh call was made in this call
  sent,         \* state-changing commands and pauses of this call, in order
  polls,        \* stop: liveness checks made
  sawDead,      \* stop: the last liveness check answered "stopped"
  tickLag,      \* round-trip time spent inside the current loop iteration
  wake,         \* start: what held when the sleep that crossed the deadline ended
  respIdx,      \* query: log indices of the answers to this call's 'list'
  pre,          \* the target was already stopped when the call was made
  hist,         \* completed calls, oldest first (SpecStop only)
  \* the response parser on its own (SpecParse only)
  match,        \* newLines.match(...): <<>> for null, else <<the groups>>
  parsed,       \* what the parser made of it, <<>> before it ran
  \* a second caller (SpecOverlap only)
  other         \* the call of the caller that is not running now: its locals

envVars  == <<session, javaPid, gen, log, pending>>
ctlVars  == <<pc, op, host, arg, now, tmuxExists, javaRunning, originalPid,
              timedOut, serverReady, wcResult, lineCount, newLines, sink,
              err, startOutput>>
obsVars  == <<remote, sent, polls, sawDead, tickLag, wake, respIdx, pre>>
parseVars == <<match, parsed>>
vars     == <<envVars, ctlVars, obsVars, hist, parseVars, other>>

Latency == 0..MaxLatency
Hosts   == {"none", "down", "up"}
Args    == {"empty", "text"}
Lines   == {"noise", "done", "list0", "list2"}
Ops     == {"say", "op", "deop", "warnShutdown", "stopMinecraftServer",
            "status", "startMinecraftServer", "collectMetrics"}

\* ------------------------------------------------------------ lib/ssh.ts
\* isValidSshHost: a host is configured
isValidSshHost(h) == h # "none"

\* sshExecRaw never throws: on an unreachable host it returns a non-zero
\* code and an empty stdout, otherwise the command's own stdout.
sshExecRaw(h, out) == IF h = "up" THEN out ELSE ""

\* exit code of the reachability probe `echo ok`
ReachCode(h) == IF h = "up" THEN 0 ELSE 255

\* waitForSsh: TRUE as soon as the host answers, FALSE after 60 s
waitForSsh(h) == h = "up"

\* --------------------------------------------------------------- results
\* A record of ServerSchema; every field is optional, "absent" when not set.
Rec == [kind |-> "server", success |-> "absent", skipped |-> "absent",
        alreadyStopped |-> "absent", timedOut |-> "absent", ip |-> "absent",
        serverRunning |-> "absent", serverReady |-> "absent",
        online |-> "absent", max |-> "absent", players |-> <<"(absent)">>]

Skipped(b) == [Rec EXCEPT !.success = "true", !.skipped = b]

AlreadyStoppedRec ==
  [Rec EXCEPT !.success = "true", !.alreadyStopped = "true", !.timedOut = "false"]

Bool(b) == IF b THEN "true" ELSE "false"

StoppedRec(t, h) ==
  [Rec EXCEPT !.success = "true", !.alreadyStopped = "false",
              !.timedOut = Bool(t), !.ip = h]

\* ---------------------------------------------------------------- resets
Locals0 ==
  /\ now = 0 /\ tmuxExists = FALSE /\ javaRunning = FALSE /\ originalPid = 0
  /\ timedOut = FALSE /\ serverReady = FALSE /\ wcResult = 0 /\ lineCount = 0
  /\ newLines = <<>> /\ sink = <<>> /\ err = "none" /\ startOutput = ""

\* nothing observed at a wake-up yet
Awake == [marker |-> FALSE, gone |-> FALSE]

Obs0 ==
  /\ remote = FALSE /\ sent = <<>> /\ polls = 0 /\ sawDead = FALSE
  /\ tickLag = 0 /\ wake = Awake /\ respIdx = {}

InitCall(logs) ==
  /\ session \in BOOLEAN
  /\ javaPid \in {0, 1} /\ gen = javaPid
  /\ log \in logs
  /\ pending = <<>>
  /\ pc = "idle" /\ op = "none" /\ host = "none" /\ arg = "empty"
  /\ Locals0 /\ Obs0
  /\ pre = FALSE
  /\ hist = <<>>

\* The locals of a call, as a record.
Frame(p, o, h, a, n, te, jr, op0, to, sr, wr, lc, nl, sk, e, so, ob) ==
  [pc |-> p, op |-> o, host |-> h, arg |-> a, now |-> n, tmuxExists |-> te,
   javaRunning |-> jr, originalPid |-> op0, timedOut |-> to,
   serverReady |-> sr, wcResult |-> wr, lineCount |-> lc, newLines |-> nl,
   sink |-> sk, err |-> e, startOutput |-> so, obs |-> ob]

\* a caller that has no call in progress
IdleFrame ==
  Frame("idle", "none", "none", "empty", 0, FALSE, FALSE, 0, FALSE, FALSE,
        0, 0, <<>>, <<>>, "none", "",
        <<FALSE, <<>>, 0, FALSE, 0, Awake, {}, FALSE>>)

\* caller `who` waits with the call `frame`; `serial` tells whether the
\* callers take turns (each call returns before the next is issued)
Parked(w, f, sr) == [who |-> w, frame |-> f, serial |-> sr]

InitWith(logs) ==
  /\ InitCall(logs) /\ match = <<>> /\ parsed = <<>>
  /\ other = Parked(2, IdleFrame, TRUE)

\* ------------------------------------------------------------ environment
\* The hosted process exits (a crash, or the end of a graceful stop).
JavaDies ==
  /\ javaPid # 0
  /\ javaPid' = 0 /\ pending' = <<>>
  /\ UNCHANGED <<session, gen, log, ctlVars, obsVars, hist, parseVars, other>>

\* The start script inside the session (re)spawns the process: a new pid.
JavaSpawns ==
  /\ session /\ javaPid = 0 /\ gen < MaxGen
  /\ gen' = gen + 1 /\ javaPid' = gen + 1
  /\ UNCHANGED <<session, log, pending, ctlVars, obsVars, hist, parseVars, other>>

HasMarker(l) == \E i \in 1..Len(l) : l[i] = "done"

\* The session ends by itself (its command exited).
SessionDies ==
  /\ session
  /\ session' = FALSE
  /\ UNCHANGED <<javaPid, gen, log, pending, ctlVars, obsVars, hist, parseVars, other>>

\* The hosted process writes a line of its own to the log.
AppendLine(kinds) ==
  /\ javaPid # 0 /\ Len(log) < MaxLog
  /\ \E k \in kinds : log' = Append(log, k)
  /\ UNCHANGED <<session, javaPid, gen, pending, ctlVars, obsVars, hist, parseVars, other>>

\* The hosted process answers the oldest unanswered 'list' with a line in
\* the log.
Respond ==
  /\ javaPid # 0 /\ pending # <<>> /\ Len(log) < MaxLog
  /\ \E r \in {"list0", "list2"} : log' = Append(log, r)
  /\ pending' = Tail(pending)
  /\ respIdx' = IF Head(pending) = "cur" THEN respIdx \cup {Len(log) + 1}
                ELSE respIdx
  /\ UNCHANGED <<session, javaPid, gen, ctlVars, hist, parseVars, other,
                 remote, sent, polls, sawDead, tickLag, wake, pre>>

\* ------------------------------------------------------ call and return
\* The target of a call is already stopped: no host, no reachable host, or
\* neither a session nor a hosted process.
AlreadyStopped(h) == h # "up" \/ (~session /\ javaPid = 0)

InvokeOn(ops, hosts) ==
  /\ pc = "idle"
  /\ Len(pending) < MaxPending
  /\ \E o \in ops, h \in hosts, a \in Args :
       /\ op' = o /\ host' = h
       /\ arg' = IF o \in {"say", "op", "deop"} THEN a ELSE "text"
       /\ a = "text" \/ o \in {"say", "op", "deop"}
       /\ pre' = AlreadyStopped(h)
       /\ pc' = "gate"
  /\ UNCHANGED <<envVars, now, tmuxExists, javaRunning, originalPid, timedOut,
                 serverReady, wcResult, lineCount, newLines, sink, err, startOutput,
                 remote, sent, polls, sawDead, tickLag, wake,
                 respIdx, hist, parseVars, other>>

Invoke(ops) == InvokeOn(ops, Hosts)

Finished == pc \in {"done", "failed"}

ResetCall ==
  /\ pc' = "idle" /\ op' = "none" /\ host' = "none" /\ arg' = "empty"
  /\ now' = 0 /\ tmuxExists' = FALSE /\ javaRunning' = FALSE
  /\ originalPid' = 0 /\ timedOut' = FALSE /\ serverReady' = FALSE
  /\ wcResult' = 0 /\ lineCount' = 0
  /\ newLines' = <<>> /\ sink' = <<>> /\ err' = "none" /\ startOutput' = ""
  /\ remote' = FALSE /\ sent' = <<>> /\ polls' = 0 /\ sawDead' = FALSE
  /\ tickLag' = 0 /\ wake' = Awake /\ respIdx' = {} /\ pre' = FALSE

\* The method returned (or threw); the caller may issue the next call.
Return ==
  /\ Finished
  /\ ResetCall
  /\ pending' = [i \in 1..Len(pending) |-> "old"]
  /\ UNCHANGED <<session, javaPid, gen, log, hist, parseVars, other>>


\* the call that is running now
Running ==
  Frame(pc, op, host, arg, now, tmuxExists, javaRunning, originalPid,
        timedOut, serverReady, wcResult, lineCount, newLines, sink, err,
        startOutput, obsVars)

\* the caller whose call is running now
Caller == 3 - other.who

\* (mutant) callers that take turns may still interleave
SwitchAnywhere ==
  /\ now <= MaxOverlap
  /\ other' = Parked(Caller, Running, other.serial)
  /\ LET f == other.frame IN
       /\ pc' = f.pc /\ op' = f.op /\ host' = f.host /\ arg' = f.arg
       /\ now' = f.now /\ tmuxExists' = f.tmuxExists
       /\ javaRunning' = f.javaRunning /\ originalPid' = f.originalPid
       /\ timedOut' = f.timedOut /\ serverReady' = f.serverReady
       /\ wcResult' = f.wcResult /\ lineCount' = f.lineCount
       /\ newLines' = f.newLines /\ sink' = f.sink /\ err' = f.err
       /\ startOutput' = f.startOutput
       /\ remote' = f.obs[1] /\ sent' = f.obs[2] /\ polls' = f.obs[3]
       /\ sawDead' = f.obs[4] /\ tickLag' = f.obs[5] /\ wake' = f.obs[6]
       /\ respIdx' = f.obs[7] /\ pre' = f.obs[8]
  /\ UNCHANGED <<envVars, hist, parseVars>>

\* Two calls are in flight at once (the methods are async and nothing
\* locks the session): the running call stops at an await and the other
\* caller's call goes on. Callers that take turns switch only between calls.
Switch ==
  /\ now <= MaxOverlap
  /\ other.serial => (pc = "idle" /\ other.frame.pc = "idle")
  /\ other' = Parked(Caller, Running, other.serial)
  /\ LET f == other.frame IN
       /\ pc' = f.pc /\ op' = f.op /\ host' = f.host /\ arg' = f.arg
       /\ now' = f.now /\ tmuxExists' = f.tmuxExists
       /\ javaRunning' = f.javaRunning /\ originalPid' = f.originalPid
       /\ timedOut' = f.timedOut /\ serverReady' = f.serverReady
       /\ wcResult' = f.wcResult /\ lineCount' = f.lineCount
       /\ newLines' = f.newLines /\ sink' = f.sink /\ err' = f.err
       /\ startOutput' = f.startOutput
       /\ remote' = f.obs[1] /\ sent' = f.obs[2] /\ polls' = f.obs[3]
       /\ sawDead' = f.obs[4] /\ tickLag' = f.obs[5] /\ wake' = f.obs[6]
       /\ respIdx' = f.obs[7] /\ pre' = f.obs[8]
  /\ UNCHANGED <<envVars, hist, parseVars>>

\* The caller of SpecStop: as Invoke, with the completed calls recorded.
InvokeHist(ops) == Len(hist) < MaxOps /\ Invoke(ops)

HistEntry ==
  [host |-> host, pre |-> pre, sink |-> sink, err |-> err,
   quiet |-> (sent = <<>> /\ polls = 0)]

ReturnHist ==
  /\ Finished
  /\ hist' = Append(hist, HistEntry)
  /\ ResetCall
  /\ pending' = [i \in 1..Len(pending) |-> "old"]
  /\ UNCHANGED <<session, javaPid, gen, log, parseVars, other>>

\* ------------------------------------------------------ bounded waits
\* (mutant) the loop is entered once more at the deadline itself
LoopOpenAtDeadline(t, deadline) == t <= deadline

\* while (Date.now() < deadline)
LoopOpen(t, deadline) == t < deadline

\* (mutant) the deadline itself does not count as hit
DeadlinePassed(t) == t > PollTimeout

\* if (Date.now() >= pollDeadline) timedOut = true
DeadlineHit(t) == t >= PollTimeout

\* (mutant) any java process counts, as with `pgrep -f java`
PidAliveAnyJava(p) == javaPid # 0

\* `kill -0 pid`: succeeds iff a process with that pid exists; with the
\* empty pid the command fails, which prints "stopped".
PidAlive(p) == p # 0 /\ javaPid = p

\* ------------------------------------------------- stopMinecraftServer
IsStop == op = "stopMinecraftServer"

\* context.writeResource(...) followed by return
WriteAndReturn(r) == sink' = Append(sink, r) /\ pc' = "done"

StopGate ==
  /\ pc = "gate" /\ IsStop
  /\ IF ~isValidSshHost(host)
       THEN WriteAndReturn(AlreadyStoppedRec)
       ELSE pc' = "stop_reach" /\ sink' = sink
  /\ UNCHANGED <<envVars, op, host, arg, now, tmuxExists, javaRunning,
                 originalPid, timedOut, serverReady, wcResult, lineCount, newLines, err, startOutput,
                 obsVars, hist, parseVars, other>>

\* (mutant) an unreachable host is an error, as in startMinecraftServer
StopReachThrows ==
  /\ pc = "stop_reach"
  /\ remote' = TRUE
  /\ IF ReachCode(host) # 0
       THEN /\ err' = "SSH not reachable" /\ pc' = "failed" /\ sink' = sink
            /\ startOutput' = startOutput
       ELSE pc' = "stop_tmux" /\ sink' = sink /\ err' = err /\ startOutput' = startOutput
  /\ UNCHANGED <<envVars, op, host, arg, now, tmuxExists, javaRunning,
                 originalPid, timedOut, serverReady, wcResult, lineCount, newLines,
                 sent, polls, sawDead, tickLag, wake,
                 respIdx, pre, hist, parseVars, other>>

\* const reachable = await sshExecRaw(..., "echo ok"); code !== 0 returns
StopReach ==
  /\ pc = "stop_reach"
  /\ remote' = TRUE
  /\ IF ReachCode(host) # 0
       THEN WriteAndReturn(AlreadyStoppedRec)
       ELSE pc' = "stop_tmux" /\ sink' = sink
  /\ UNCHANGED <<envVars, op, host, arg, now, tmuxExists, javaRunning,
                 originalPid, timedOut, serverReady, wcResult, lineCount, newLines, err, startOutput,
                 sent, polls, sawDead, tickLag, wake,
                 respIdx, pre, hist, parseVars, other>>

StopTmuxCheck ==
  /\ pc = "stop_tmux"
  /\ remote' = TRUE
  /\ tmuxExists' =
       (sshExecRaw(host, IF session THEN "exists" ELSE "missing") = "exists")
  /\ pc' = "stop_java"
  /\ UNCHANGED <<envVars, op, host, arg, now, javaRunning,
                 originalPid, timedOut, serverReady, wcResult, lineCount, newLines,
                 sink, err, startOutput,
                 sent, polls, sawDead, tickLag, wake,
                 respIdx, pre, hist, parseVars, other>>

\* (mutant) the "already stopped" test after the two checks is missing
StopJavaCheckNoGate ==
  /\ pc = "stop_java"
  /\ remote' = TRUE
  /\ javaRunning' =
       (sshExecRaw(host, IF javaPid # 0 THEN "running" ELSE "stopped") = "running")
  /\ pc' = "stop_send" /\ sink' = sink
  /\ UNCHANGED <<envVars, op, host, arg, now, tmuxExists,
                 originalPid, timedOut, serverReady, wcResult, lineCount, newLines, err, startOutput,
                 sent, polls, sawDead, tickLag, wake,
                 respIdx, pre, hist, parseVars, other>>

StopJavaCheck ==
  /\ pc = "stop_java"
  /\ remote' = TRUE
  /\ javaRunning' =
       (sshExecRaw(host, IF javaPid # 0 THEN "running" ELSE "stopped") = "running")
  /\ IF ~tmuxExists /\ ~javaRunning'
       THEN WriteAndReturn(AlreadyStoppedRec)
       ELSE pc' = "stop_send" /\ sink' = sink
  /\ UNCHANGED <<envVars, op, host, arg, now, tmuxExists,
                 originalPid, timedOut, serverReady, wcResult, lineCount, newLines, err, startOutput,
                 sent, polls, sawDead, tickLag, wake,
                 respIdx, pre, hist, parseVars, other>>

\* if (tmuxExists) tmux send-keys 'stop'
StopSend ==
  /\ pc = "stop_send"
  /\ sent' = IF tmuxExists THEN Append(sent, "stop") ELSE sent
  /\ pc' = "stop_pid"
  /\ UNCHANGED <<envVars, op, host, arg, now, tmuxExists, javaRunning,
                 originalPid, timedOut, serverReady, wcResult, lineCount, newLines,
                 sink, err, startOutput,
                 remote, polls, sawDead, tickLag, wake,
                 respIdx, pre, hist, parseVars, other>>

\* pgrep ... ; originalPid = first line of stdout; pollStart = Date.now()
StopPid ==
  /\ pc = "stop_pid"
  /\ originalPid' = javaPid
  /\ now' = 0
  /\ pc' = IF LoopOpen(0, PollTimeout) THEN "stop_sleep" ELSE "stop_after"
  /\ UNCHANGED <<envVars, op, host, arg, tmuxExists, javaRunning,
                 timedOut, serverReady, wcResult, lineCount, newLines, sink, err, startOutput,
                 remote, sent, polls, sawDead, tickLag, wake,
                 respIdx, pre, hist, parseVars, other>>

\* await new Promise(r => setTimeout(r, 3000))
StopSleep ==
  /\ pc = "stop_sleep"
  /\ now' = now + StopPollInterval
  /\ pc' = "stop_check"
  /\ UNCHANGED <<envVars, op, host, arg, tmuxExists, javaRunning,
                 originalPid, timedOut, serverReady, wcResult, lineCount, newLines,
                 sink, err, startOutput,
                 remote, sent, polls, sawDead, tickLag, wake,
                 respIdx, pre, hist, parseVars, other>>

\* (mutant) no break: the poll goes on after the process was seen dead
StopCheckKeepsPolling(d) ==
  /\ pc = "stop_check"
  /\ LET out == sshExecRaw(host, IF PidAlive(originalPid)
                                   THEN "running" ELSE "stopped")
     IN  /\ sawDead' = (out = "stopped")
         /\ pc' = IF LoopOpen(now + d, PollTimeout) THEN "stop_sleep"
                  ELSE "stop_after"
  /\ now' = now + d
  /\ tickLag' = IF pc' = "stop_sleep" THEN 0 ELSE d
  /\ polls' = polls + 1
  /\ UNCHANGED <<envVars, op, host, arg, tmuxExists, javaRunning,
                 originalPid, timedOut, serverReady, wcResult, lineCount, newLines,
                 sink, err, startOutput,
                 remote, sent, wake, respIdx, pre, hist, parseVars, other>>

\* kill -0 originalPid; break on "stopped", else back to the loop condition
StopCheck(d) ==
  /\ pc = "stop_check"
  /\ LET out == sshExecRaw(host, IF PidAlive(originalPid)
                                   THEN "running" ELSE "stopped")
     IN  /\ sawDead' = (out = "stopped")
         /\ pc' = IF out = "stopped" THEN "stop_after"
                  ELSE IF LoopOpen(now + d, PollTimeout) THEN "stop_sleep"
                  ELSE "stop_after"
  /\ now' = now + d
  /\ tickLag' = IF pc' = "stop_sleep" THEN 0 ELSE d
  /\ polls' = polls + 1
  /\ UNCHANGED <<envVars, op, host, arg, tmuxExists, javaRunning,
                 originalPid, timedOut, serverReady, wcResult, lineCount, newLines,
                 sink, err, startOutput,
                 remote, sent, wake, respIdx, pre, hist, parseVars, other>>

StopAfter ==
  /\ pc = "stop_after"
  /\ timedOut' = DeadlineHit(now)
  /\ pc' = "stop_kill"
  /\ UNCHANGED <<envVars, op, host, arg, now, tmuxExists, javaRunning,
                 originalPid, serverReady, wcResult, lineCount, newLines, sink, err, startOutput,
                 obsVars, hist, parseVars, other>>

\* (mutant) the session is killed only when the process was seen to exit
StopKillUnlessTimedOut ==
  /\ pc = "stop_kill"
  /\ session' = (session /\ timedOut)
  /\ sent' = IF timedOut THEN sent ELSE Append(sent, "kill")
  /\ pc' = "stop_write"
  /\ UNCHANGED <<javaPid, gen, log, pending,
                 op, host, arg, now, tmuxExists, javaRunning,
                 originalPid, timedOut, serverReady, wcResult, lineCount, newLines,
                 sink, err, startOutput,
                 remote, polls, sawDead, tickLag, wake,
                 respIdx, pre, hist, parseVars, other>>

\* tmux kill-session -t ... || true
StopKill ==
  /\ pc = "stop_kill"
  /\ session' = FALSE
  /\ sent' = Append(sent, "kill")
  /\ pc' = "stop_write"
  /\ UNCHANGED <<javaPid, gen, log, pending,
                 op, host, arg, now, tmuxExists, javaRunning,
                 originalPid, timedOut, serverReady, wcResult, lineCount, newLines,
                 sink, err, startOutput,
                 remote, polls, sawDead, tickLag, wake,
                 respIdx, pre, hist, parseVars, other>>

StopWrite ==
  /\ pc = "stop_write"
  /\ WriteAndReturn(StoppedRec(timedOut, host))
  /\ UNCHANGED <<envVars, op, host, arg, now, tmuxExists, javaRunning,
                 originalPid, timedOut, serverReady, wcResult, lineCount, newLines, err, startOutput,
                 obsVars, hist, parseVars, other>>

StopStep ==
  \/ StopGate \/ StopReach \/ StopTmuxCheck \/ StopJavaCheck \/ StopSend
  \/ StopPid \/ StopSleep \/ (\E d \in Latency : StopCheck(d))
  \/ StopAfter \/ StopKill \/ StopWrite

\* ------------------------------------------------ startMinecraftServer
IsStart == op = "startMinecraftServer"

\* throw new Error(...)
ThrowWith(e, out) == err' = e /\ pc' = "failed" /\ startOutput' = out

Throw(e) == ThrowWith(e, "")

ReadyRec(h) ==
  [Rec EXCEPT !.success = "true", !.ip = h, !.serverReady = "true"]

StartGate ==
  /\ pc = "gate" /\ IsStart
  /\ IF ~isValidSshHost(host)
       THEN Throw("sshHost is required")
       ELSE pc' = "start_wait" /\ err' = err /\ startOutput' = startOutput
  /\ UNCHANGED <<envVars, op, host, arg, now, tmuxExists, javaRunning,
                 originalPid, timedOut, serverReady, wcResult, lineCount, newLines, sink,
                 obsVars, hist, parseVars, other>>

StartWait ==
  /\ pc = "start_wait"
  /\ remote' = TRUE
  /\ IF ~waitForSsh(host)
       THEN Throw("SSH not reachable")
       ELSE pc' = "start_kill" /\ err' = err /\ startOutput' = startOutput
  /\ UNCHANGED <<envVars, op, host, arg, now, tmuxExists, javaRunning,
                 originalPid, timedOut, serverReady, wcResult, lineCount, newLines, sink,
                 sent, polls, sawDead, tickLag, wake,
                 respIdx, pre, hist, parseVars, other>>

\* (mutant) the stale session is left alone
StartKillStaleSkipped ==
  /\ pc = "start_kill"
  /\ session' = session
  /\ sent' = Append(sent, "kill")
  /\ pc' = "start_trunc"
  /\ UNCHANGED <<javaPid, gen, log, pending,
                 op, host, arg, now, tmuxExists, javaRunning,
                 originalPid, timedOut, serverReady, wcResult, lineCount, newLines,
                 sink, err, startOutput,
                 remote, polls, sawDead, tickLag, wake,
                 respIdx, pre, hist, parseVars, other>>

\* tmux kill-session -t ... || true
StartKillStale ==
  /\ pc = "start_kill"
  /\ session' = FALSE
  /\ sent' = Append(sent, "kill")
  /\ pc' = "start_trunc"
  /\ UNCHANGED <<javaPid, gen, log, pending,
                 op, host, arg, now, tmuxExists, javaRunning,
                 originalPid, timedOut, serverReady, wcResult, lineCount, newLines,
                 sink, err, startOutput,
                 remote, polls, sawDead, tickLag, wake,
                 respIdx, pre, hist, parseVars, other>>

\* (mutant) the log keeps its old lines
StartTruncateKeepsLog ==
  /\ pc = "start_trunc"
  /\ log' = log
  /\ sent' = Append(sent, "truncate")
  /\ pc' = "start_new"
  /\ UNCHANGED <<session, javaPid, gen, pending,
                 op, host, arg, now, tmuxExists, javaRunning,
                 originalPid, timedOut, serverReady, wcResult, lineCount, newLines,
                 sink, err, startOutput,
                 remote, polls, sawDead, tickLag, wake,
                 respIdx, pre, hist, parseVars, other>>

\* truncate -s 0 logPath (and the start log)
StartTruncate ==
  /\ pc = "start_trunc"
  /\ log' = <<>>
  /\ sent' = Append(sent, "truncate")
  /\ pc' = "start_new"
  /\ UNCHANGED <<session, javaPid, gen, pending,
                 op, host, arg, now, tmuxExists, javaRunning,
                 originalPid, timedOut, serverReady, wcResult, lineCount, newLines,
                 sink, err, startOutput,
                 remote, polls, sawDead, tickLag, wake,
                 respIdx, pre, hist, parseVars, other>>

\* (mutant) the exit code of new-session is not looked at
StartNewUnchecked(ok) ==
  /\ pc = "start_new"
  /\ IF ok /\ ~session
       THEN /\ session' = TRUE
            /\ sent' = Append(sent, "new")
            /\ pc' = IF LoopOpen(0, ReadyTimeout) THEN "start_log"
                     ELSE "start_timeout"
            /\ err' = err /\ startOutput' = startOutput
       ELSE /\ pc' = "start_log"
            /\ err' = err /\ startOutput' = startOutput
            /\ UNCHANGED <<session, sent>>
  /\ now' = 0
  /\ UNCHANGED <<javaPid, gen, log, pending,
                 op, host, arg, tmuxExists, javaRunning,
                 originalPid, timedOut, serverReady, wcResult, lineCount, newLines, sink,
                 remote, polls, sawDead, tickLag, wake,
                 respIdx, pre, hist, parseVars, other>>

\* tmux new-session -d -s ...; a non-zero exit code is thrown.  tmux refuses
\* a duplicate session name; it may also fail for reasons of its own.
\* readyStart = Date.now() follows at once.
StartNew(ok) ==
  /\ pc = "start_new"
  /\ IF ok /\ ~session
       THEN /\ session' = TRUE
            /\ sent' = Append(sent, "new")
            /\ pc' = IF LoopOpen(0, ReadyTimeout) THEN "start_log"
                     ELSE "start_timeout"
            /\ err' = err /\ startOutput' = startOutput
       ELSE /\ Throw("Failed to start tmux session")
            /\ UNCHANGED <<session, sent>>
  /\ now' = 0
  /\ UNCHANGED <<javaPid, gen, log, pending,
                 op, host, arg, tmuxExists, javaRunning,
                 originalPid, timedOut, serverReady, wcResult, lineCount, newLines, sink,
                 remote, polls, sawDead, tickLag, wake,
                 respIdx, pre, hist, parseVars, other>>

\* (mutant) the session is looked at first: without it the tick ends dead
StartLogCheckSessionFirst(d) ==
  /\ pc = "start_log"
  /\ LET out == sshExecRaw(host, IF HasMarker(log) THEN "READY" ELSE "WAITING")
     IN  /\ serverReady' = (session /\ out = "READY")
         /\ pc' = IF ~session THEN "start_dead"
                  ELSE IF out = "READY" THEN "start_write" ELSE "start_tmux"
  /\ now' = now + d
  /\ tickLag' = d
  /\ UNCHANGED <<envVars, op, host, arg, tmuxExists, javaRunning,
                 originalPid, timedOut, wcResult, lineCount, newLines, sink, err, startOutput,
                 remote, sent, polls, sawDead, wake,
                 respIdx, pre, hist, parseVars, other>>

\* grep -q '\]: Done (' logPath && echo READY || echo WAITING
StartLogCheck(d) ==
  /\ pc = "start_log"
  /\ LET out == sshExecRaw(host, IF HasMarker(log) THEN "READY" ELSE "WAITING")
     IN  /\ serverReady' = (out = "READY")
         /\ pc' = IF out = "READY" THEN "start_write" ELSE "start_tmux"
  /\ now' = now + d
  /\ tickLag' = d
  /\ UNCHANGED <<envVars, op, host, arg, tmuxExists, javaRunning,
                 originalPid, timedOut, wcResult, lineCount, newLines, sink, err, startOutput,
                 remote, sent, polls, sawDead, wake,
                 respIdx, pre, hist, parseVars, other>>

\* (mutant) the answer is compared with "missing", which is never printed
StartTmuxCheckMissing(d) ==
  /\ pc = "start_tmux"
  /\ LET out == sshExecRaw(host, IF session THEN "alive" ELSE "dead")
     IN  pc' = IF out = "missing" THEN "start_dead" ELSE "start_sleep"
  /\ now' = now + d
  /\ tickLag' = tickLag + d
  /\ UNCHANGED <<envVars, op, host, arg, tmuxExists, javaRunning,
                 originalPid, timedOut, serverReady, wcResult, lineCount, newLines,
                 sink, err, startOutput,
                 remote, sent, polls, sawDead, wake,
                 respIdx, pre, hist, parseVars, other>>

\* tmux has-session -t ... && echo alive || echo dead
StartTmuxCheck(d) ==
  /\ pc = "start_tmux"
  /\ LET out == sshExecRaw(host, IF session THEN "alive" ELSE "dead")
     IN  pc' = IF out = "dead" THEN "start_dead" ELSE "start_sleep"
  /\ now' = now + d
  /\ tickLag' = tickLag + d
  /\ UNCHANGED <<envVars, op, host, arg, tmuxExists, javaRunning,
                 originalPid, timedOut, serverReady, wcResult, lineCount, newLines,
                 sink, err, startOutput,
                 remote, sent, polls, sawDead, wake,
                 respIdx, pre, hist, parseVars, other>>

\* cat startLog 2>/dev/null || echo "(no output)"
StartOutputs == {"start.sh output", "(no output)"}

\* (mutant) the error is thrown without the output of the start script
StartDeadBare ==
  /\ pc = "start_dead"
  /\ Throw("exited before becoming ready")
  /\ UNCHANGED <<envVars, op, host, arg, now, tmuxExists, javaRunning,
                 originalPid, timedOut, serverReady, wcResult, lineCount,
                 newLines, sink, obsVars, hist, parseVars, other>>

\* cat startLog; throw "Server process exited before becoming ready"
StartDead ==
  /\ pc = "start_dead"
  /\ \E out \in StartOutputs :
       ThrowWith("exited before becoming ready", sshExecRaw(host, out))
  /\ UNCHANGED <<envVars, op, host, arg, now, tmuxExists, javaRunning,
                 originalPid, timedOut, serverReady, wcResult, lineCount, newLines, sink,
                 obsVars, hist, parseVars, other>>

\* setTimeout(r, readyPoll * 1000), then the loop condition
StartSleep ==
  /\ pc = "start_sleep"
  /\ now' = now + ReadyPoll
  /\ pc' = IF LoopOpen(now + ReadyPoll, ReadyTimeout) THEN "start_log"
           ELSE "start_timeout"
  /\ tickLag' = IF pc' = "start_log" THEN 0 ELSE tickLag
  /\ wake' = IF pc' = "start_timeout"
              THEN [marker |-> HasMarker(log), gone |-> ~session]
              ELSE wake
  /\ UNCHANGED <<envVars, op, host, arg, tmuxExists, javaRunning,
                 originalPid, timedOut, serverReady, wcResult, lineCount, newLines,
                 sink, err, startOutput,
                 remote, sent, polls, sawDead, respIdx, pre, hist, parseVars, other>>

\* (mutant) a record is written before the error is thrown
StartTimeoutWrites ==
  /\ pc = "start_timeout"
  /\ ~serverReady
  /\ \E out \in StartOutputs :
       ThrowWith("did not become ready", sshExecRaw(host, out))
  /\ sink' = Append(sink, [ReadyRec(host) EXCEPT !.serverReady = "false"])
  /\ UNCHANGED <<envVars, op, host, arg, now, tmuxExists, javaRunning,
                 originalPid, timedOut, serverReady, wcResult, lineCount, newLines,
                 obsVars, hist, parseVars, other>>

\* if (!serverReady) { cat startLog; throw "did not become ready" }
StartTimeout ==
  /\ pc = "start_timeout"
  /\ ~serverReady
  /\ \E out \in StartOutputs :
       ThrowWith("did not become ready", sshExecRaw(host, out))
  /\ UNCHANGED <<envVars, op, host, arg, now, tmuxExists, javaRunning,
                 originalPid, timedOut, serverReady, wcResult, lineCount, newLines, sink,
                 obsVars, hist, parseVars, other>>

StartWrite ==
  /\ pc = "start_write"
  /\ WriteAndReturn(ReadyRec(host))
  /\ UNCHANGED <<envVars, op, host, arg, now, tmuxExists, javaRunning,
                 originalPid, timedOut, serverReady, wcResult, lineCount, newLines, err, startOutput,
                 obsVars, hist, parseVars, other>>

StartStep ==
  \/ StartGate \/ StartWait \/ StartKillStale \/ StartTruncate
  \/ (\E ok \in BOOLEAN : StartNew(ok))
  \/ (\E d \in Latency : StartLogCheck(d))
  \/ (\E d \in Latency : StartTmuxCheck(d))
  \/ StartDead \/ StartSleep \/ StartTimeout \/ StartWrite

\* ------------------------------------------------------ say, op, deop
IsCmd == op \in {"say", "op", "deop"}

\* (mutant) the test of sshHost is missing
CmdGateNoHostTest ==
  /\ pc = "gate" /\ IsCmd
  /\ IF arg = "empty"
       THEN Throw("argument is required") /\ sink' = sink
       ELSE pc' = "cmd_tmux" /\ sink' = sink /\ err' = err /\ startOutput' = startOutput
  /\ UNCHANGED <<envVars, op, host, arg, now, tmuxExists, javaRunning,
                 originalPid, timedOut, serverReady, wcResult, lineCount, newLines,
                 obsVars, hist, parseVars, other>>

\* if (!args.message) throw ...; if (!isValidSshHost(sshHost)) skip
CmdGate ==
  /\ pc = "gate" /\ IsCmd
  /\ IF arg = "empty"
       THEN Throw("argument is required") /\ sink' = sink
       ELSE IF ~isValidSshHost(host)
         THEN WriteAndReturn(Skipped("true")) /\ err' = err /\ startOutput' = startOutput
         ELSE pc' = "cmd_tmux" /\ sink' = sink /\ err' = err /\ startOutput' = startOutput
  /\ UNCHANGED <<envVars, op, host, arg, now, tmuxExists, javaRunning,
                 originalPid, timedOut, serverReady, wcResult, lineCount, newLines,
                 obsVars, hist, parseVars, other>>

\* (mutant) only the answer "missing" skips
CmdTmuxCheckOnlyMissing ==
  /\ pc = "cmd_tmux"
  /\ remote' = TRUE
  /\ IF sshExecRaw(host, IF session THEN "exists" ELSE "missing") = "missing"
       THEN WriteAndReturn(Skipped("true"))
       ELSE pc' = "cmd_send" /\ sink' = sink
  /\ UNCHANGED <<envVars, op, host, arg, now, tmuxExists, javaRunning,
                 originalPid, timedOut, serverReady, wcResult, lineCount, newLines, err, startOutput,
                 sent, polls, sawDead, tickLag, wake,
                 respIdx, pre, hist, parseVars, other>>

\* tmux has-session ...; anything but "exists" skips
CmdTmuxCheck ==
  /\ pc = "cmd_tmux"
  /\ remote' = TRUE
  /\ IF sshExecRaw(host, IF session THEN "exists" ELSE "missing") # "exists"
       THEN WriteAndReturn(Skipped("true"))
       ELSE pc' = "cmd_send" /\ sink' = sink
  /\ UNCHANGED <<envVars, op, host, arg, now, tmuxExists, javaRunning,
                 originalPid, timedOut, serverReady, wcResult, lineCount, newLines, err, startOutput,
                 sent, polls, sawDead, tickLag, wake,
                 respIdx, pre, hist, parseVars, other>>

\* tmux send-keys '<command>' Enter, then the result record
CmdSend ==
  /\ pc = "cmd_send"
  /\ sent' = Append(sent, op)
  /\ WriteAndReturn(Skipped("false"))
  /\ UNCHANGED <<envVars, op, host, arg, now, tmuxExists, javaRunning,
                 originalPid, timedOut, serverReady, wcResult, lineCount, newLines, err, startOutput,
                 remote, polls, sawDead, tickLag, wake,
                 respIdx, pre, hist, parseVars, other>>

CmdStep == CmdGate \/ CmdTmuxCheck \/ CmdSend

\* -------------------------------------------------------- warnShutdown
IsWarn == op = "warnShutdown"

WarnGate ==
  /\ pc = "gate" /\ IsWarn
  /\ IF ~isValidSshHost(host)
       THEN WriteAndReturn(Skipped("true"))
       ELSE pc' = "warn_tmux" /\ sink' = sink
  /\ UNCHANGED <<envVars, op, host, arg, now, tmuxExists, javaRunning,
                 originalPid, timedOut, serverReady, wcResult, lineCount, newLines, err, startOutput,
                 obsVars, hist, parseVars, other>>

WarnTmuxCheck ==
  /\ pc = "warn_tmux"
  /\ remote' = TRUE
  /\ IF sshExecRaw(host, IF session THEN "exists" ELSE "missing") # "exists"
       THEN WriteAndReturn(Skipped("true"))
       ELSE pc' = "warn_send" /\ sink' = sink
  /\ UNCHANGED <<envVars, op, host, arg, now, tmuxExists, javaRunning,
                 originalPid, timedOut, serverReady, wcResult, lineCount, newLines, err, startOutput,
                 sent, polls, sawDead, tickLag, wake,
                 respIdx, pre, hist, parseVars, other>>

\* (mutant) the loop runs while i <= 3
WarnSendOneMore ==
  /\ pc = "warn_send"
  /\ sent' = Append(sent, "say")
  /\ pc' = IF Len(sent) + 1 <= WarnCount THEN "warn_send" ELSE "warn_sleep"
  /\ UNCHANGED <<envVars, op, host, arg, now, tmuxExists, javaRunning,
                 originalPid, timedOut, serverReady, wcResult, lineCount, newLines,
                 sink, err, startOutput,
                 remote, polls, sawDead, tickLag, wake,
                 respIdx, pre, hist, parseVars, other>>

\* for (let i = 0; i < 3; i++) tmux send-keys 'say ...' Enter
WarnSend ==
  /\ pc = "warn_send"
  /\ sent' = Append(sent, "say")
  /\ pc' = IF Len(sent) + 1 < WarnCount THEN "warn_send" ELSE "warn_sleep"
  /\ UNCHANGED <<envVars, op, host, arg, now, tmuxExists, javaRunning,
                 originalPid, timedOut, serverReady, wcResult, lineCount, newLines,
                 sink, err, startOutput,
                 remote, polls, sawDead, tickLag, wake,
                 respIdx, pre, hist, parseVars, other>>

\* setTimeout(r, 30000), then the result record
WarnSleep ==
  /\ pc = "warn_sleep"
  /\ sent' = Append(sent, "pause")
  /\ WriteAndReturn(Skipped("false"))
  /\ UNCHANGED <<envVars, op, host, arg, now, tmuxExists, javaRunning,
                 originalPid, timedOut, serverReady, wcResult, lineCount, newLines, err, startOutput,
                 remote, polls, sawDead, tickLag, wake,
                 respIdx, pre, hist, parseVars, other>>

WarnStep == WarnGate \/ WarnTmuxCheck \/ WarnSend \/ WarnSleep

\* ------------------------------------------- status and collectMetrics
IsQuery == op \in {"status", "collectMetrics"}

\* /There are (\d+) of a max of (\d+) players online:(.*)/ on one line
IsResponse(l) == l \in {"list0", "list2"}

\* String.match without the g flag: the first line that matches, 0 if none
FirstMatch(ls) ==
  IF \E i \in 1..Len(ls) : IsResponse(ls[i])
    THEN CHOOSE i \in 1..Len(ls) :
           IsResponse(ls[i]) /\ \A j \in 1..(i - 1) : ~IsResponse(ls[j])
    ELSE 0

Online(l)  == IF l = "list0" THEN "0" ELSE "2"
MaxOf(l)   == "20"
Players(l) == IF l = "list0" THEN <<>> ELSE <<"Alice", "Bob">>

\* status: { serverRunning: false }
NotRunningRec == [Rec EXCEPT !.serverRunning = "false"]

\* collectMetrics: { serverRunning: false, online: 0, max: null, players: [] }
MetricsDownRec ==
  [Rec EXCEPT !.kind = "metrics", !.serverRunning = "false", !.online = "0",
              !.max = "null", !.players = <<>>]

DownRec(o) == IF o = "status" THEN NotRunningRec ELSE MetricsDownRec

\* (mutant) an unmatched tail is reported as 0 players
StatusRecUnmatchedZero(ls) ==
  LET m == FirstMatch(ls)
  IN  IF m # 0
        THEN [Rec EXCEPT !.serverRunning = "true", !.online = Online(ls[m]),
                         !.max = MaxOf(ls[m]), !.players = Players(ls[m])]
        ELSE [Rec EXCEPT !.serverRunning = "true", !.online = "0",
                         !.max = "null", !.players = <<>>]

\* status: the matched record, or online: null, max: null, players: []
StatusRec(ls) ==
  LET m == FirstMatch(ls)
  IN  IF m # 0
        THEN [Rec EXCEPT !.serverRunning = "true", !.online = Online(ls[m]),
                         !.max = MaxOf(ls[m]), !.players = Players(ls[m])]
        ELSE [Rec EXCEPT !.serverRunning = "true", !.online = "null",
                         !.max = "null", !.players = <<>>]

\* collectMetrics: online = match ? n : 0, max = match ? m : null
MetricsRec(ls) ==
  LET m == FirstMatch(ls)
  IN  [Rec EXCEPT !.kind = "metrics", !.serverRunning = "true",
                  !.online = IF m # 0 THEN Online(ls[m]) ELSE "0",
                  !.max = IF m # 0 THEN MaxOf(ls[m]) ELSE "null",
                  !.players = IF m # 0 THEN Players(ls[m]) ELSE <<>>]

\* (mutant) 'list' is sent before the line count is taken
QueryOrderSendFirst == <<"q_send", "q_wc", "q_settle", "q_tail", "q_write">>

\* the remote steps of a query once the session is known to exist:
\* wc -l, send-keys 'list', settle, tail, parse and write
QueryOrder == <<"q_wc", "q_send", "q_settle", "q_tail", "q_write">>

QueryAfter(p) ==
  LET i == CHOOSE k \in 1..Len(QueryOrder) : QueryOrder[k] = p
  IN  QueryOrder[i + 1]

QueryGate ==
  /\ pc = "gate" /\ IsQuery
  /\ IF ~isValidSshHost(host)
       THEN WriteAndReturn(DownRec(op))
       ELSE pc' = "q_reach" /\ sink' = sink
  /\ UNCHANGED <<envVars, op, host, arg, now, tmuxExists, javaRunning,
                 originalPid, timedOut, serverReady, wcResult, lineCount, newLines, err, startOutput,
                 obsVars, hist, parseVars, other>>

QueryReach ==
  /\ pc = "q_reach"
  /\ remote' = TRUE
  /\ IF ReachCode(host) # 0
       THEN WriteAndReturn(DownRec(op))
       ELSE pc' = "q_tmux" /\ sink' = sink
  /\ UNCHANGED <<envVars, op, host, arg, now, tmuxExists, javaRunning,
                 originalPid, timedOut, serverReady, wcResult, lineCount, newLines, err, startOutput,
                 sent, polls, sawDead, tickLag, wake,
                 respIdx, pre, hist, parseVars, other>>

\* (mutant) only an empty answer counts as "no session"
QueryTmuxCheckIgnored ==
  /\ pc = "q_tmux"
  /\ IF sshExecRaw(host, IF session THEN "exists" ELSE "missing") = ""
       THEN IF op = "status"
              THEN WriteAndReturn(NotRunningRec) /\ sent' = sent
              ELSE /\ sent' = Append(sent, "metrics")
                   /\ WriteAndReturn(MetricsDownRec)
       ELSE pc' = QueryOrder[1] /\ sink' = sink /\ sent' = sent
  /\ UNCHANGED <<envVars, op, host, arg, now, tmuxExists, javaRunning,
                 originalPid, timedOut, serverReady, wcResult, lineCount, newLines, err, startOutput,
                 remote, polls, sawDead, tickLag, wake,
                 respIdx, pre, hist, parseVars, other>>

\* tmux has-session; status returns "not running", collectMetrics first
\* writes the metrics files
QueryTmuxCheck ==
  /\ pc = "q_tmux"
  /\ IF sshExecRaw(host, IF session THEN "exists" ELSE "missing") # "exists"
       THEN IF op = "status"
              THEN WriteAndReturn(NotRunningRec) /\ sent' = sent
              ELSE /\ sent' = Append(sent, "metrics")
                   /\ WriteAndReturn(MetricsDownRec)
       ELSE pc' = QueryOrder[1] /\ sink' = sink /\ sent' = sent
  /\ UNCHANGED <<envVars, op, host, arg, now, tmuxExists, javaRunning,
                 originalPid, timedOut, serverReady, wcResult, lineCount, newLines, err, startOutput,
                 remote, polls, sawDead, tickLag, wake,
                 respIdx, pre, hist, parseVars, other>>

\* parseInt of a stdout that holds no number (a failed wc prints nothing)
NaN == -1

\* parseInt(wcResult.stdout.trim(), 10) || 0
ParseCount(n) == IF n = NaN \/ n = 0 THEN 0 ELSE n

\* wc -l < logPath prints the line count, or nothing when the command fails
WcOutputs == {Len(log), NaN}

\* wc -l < logPath; lineCount = parseInt(stdout) || 0
QueryWatermark ==
  /\ pc = "q_wc"
  /\ \E out \in WcOutputs :
       wcResult' = out /\ lineCount' = ParseCount(out)
  /\ pc' = QueryAfter("q_wc")
  /\ UNCHANGED <<envVars, op, host, arg, now, tmuxExists, javaRunning,
                 originalPid, timedOut, serverReady, newLines, sink, err, startOutput,
                 obsVars, hist, parseVars, other>>

\* tmux send-keys 'list' Enter: the console of a running process receives it
QuerySend ==
  /\ pc = "q_send"
  /\ sent' = Append(sent, "list")
  /\ pending' = IF session /\ javaPid # 0 THEN Append(pending, "cur")
                ELSE pending
  /\ pc' = QueryAfter("q_send")
  /\ UNCHANGED <<session, javaPid, gen, log,
                 op, host, arg, now, tmuxExists, javaRunning,
                 originalPid, timedOut, serverReady, wcResult, lineCount, newLines,
                 sink, err, startOutput,
                 remote, polls, sawDead, tickLag, wake,
                 respIdx, pre, hist, parseVars, other>>

\* await new Promise(r => setTimeout(r, 2000))
QuerySettle ==
  /\ pc = "q_settle"
  /\ pc' = QueryAfter("q_settle")
  /\ UNCHANGED <<envVars, op, host, arg, now, tmuxExists, javaRunning,
                 originalPid, timedOut, serverReady, wcResult, lineCount, newLines,
                 sink, err, startOutput, obsVars, hist, parseVars, other>>

\* (mutant) tail -n +(lineCount + 2): the first new line is dropped
TailFromSkipsOne(l, n) == SubSeq(l, n + 2, Len(l))

\* tail -n +(lineCount + 1) logPath
TailFrom(l, n) == SubSeq(l, n + 1, Len(l))

\* (mutant) the lines that were read are cut from the log
QueryTailConsumes ==
  /\ pc = "q_tail"
  /\ newLines' = TailFrom(log, lineCount)
  /\ log' = SubSeq(log, 1, lineCount)
  /\ pc' = QueryAfter("q_tail")
  /\ UNCHANGED <<session, javaPid, gen, pending,
                 op, host, arg, now, tmuxExists, javaRunning,
                 originalPid, timedOut, serverReady, wcResult, lineCount, sink, err, startOutput,
                 obsVars, hist, parseVars, other>>

QueryTail ==
  /\ pc = "q_tail"
  /\ newLines' = TailFrom(log, lineCount)
  /\ pc' = QueryAfter("q_tail")
  /\ UNCHANGED <<envVars, op, host, arg, now, tmuxExists, javaRunning,
                 originalPid, timedOut, serverReady, wcResult, lineCount, sink, err, startOutput,
                 obsVars, hist, parseVars, other>>

\* parse, (collectMetrics: write the metrics files,) write the record
QueryWrite ==
  /\ pc = "q_write"
  /\ IF op = "status"
       THEN WriteAndReturn(StatusRec(newLines)) /\ sent' = sent
       ELSE /\ sent' = Append(sent, "metrics")
            /\ WriteAndReturn(MetricsRec(newLines))
  /\ UNCHANGED <<envVars, op, host, arg, now, tmuxExists, javaRunning,
                 originalPid, timedOut, serverReady, wcResult, lineCount, newLines, err, startOutput,
                 remote, polls, sawDead, tickLag, wake,
                 respIdx, pre, hist, parseVars, other>>

QueryStep ==
  \/ QueryGate \/ QueryReach \/ QueryTmuxCheck \/ QueryWatermark
  \/ QuerySend \/ QuerySettle \/ QueryTail \/ QueryWrite

\* ------------------------------------------------- the response parser
\* /There are (\d+) of a max of (\d+) players online:(.*)/ applied to the
\* tail, then parseInt, trim, split, map(trim), filter(Boolean).  Text is a
\* sequence of characters; the groups of a match are [n, m, rest].
Chars  == {"a", "b", " ", ","}
Digits == {"0", "2"}

SeqsUpTo(S, n) == UNION {[1..k -> S] : k \in 0..n}

\* the values newLines.match(...) can have: null, or the three groups
Matches ==
  {<<>>} \cup
  {<<[n |-> n, m |-> m, rest |-> r]>> :
     n \in SeqsUpTo(Digits, MaxDigits) \ {<<>>},
     m \in {<<"2">>, <<"2", "0">>, <<"0", "2">>},
     r \in SeqsUpTo(Chars, MaxText)}

DigitVal(c) == IF c = "0" THEN 0 ELSE 2

\* parseInt(ds, 10) of a string of digits
RECURSIVE ParseInt(_)
ParseInt(ds) ==
  IF ds = <<>> THEN 0
  ELSE 10 * ParseInt(SubSeq(ds, 1, Len(ds) - 1)) + DigitVal(ds[Len(ds)])

\* String.prototype.trim
RECURSIVE Trim(_)
Trim(t) ==
  IF t = <<>> THEN t
  ELSE IF Head(t) = " " THEN Trim(Tail(t))
  ELSE IF t[Len(t)] = " " THEN Trim(SubSeq(t, 1, Len(t) - 1))
  ELSE t

\* t.split(",")
RECURSIVE Split(_)
Split(t) ==
  IF \A i \in 1..Len(t) : t[i] # ","
    THEN <<t>>
    ELSE LET i == CHOOSE k \in 1..Len(t) :
                    t[k] = "," /\ \A j \in 1..(k - 1) : t[j] # ","
         IN  <<SubSeq(t, 1, i - 1)>> \o Split(SubSeq(t, i + 1, Len(t)))

\* (mutant) the empty names are kept: no filter(Boolean)
ParsePlayersUnfiltered(rest) ==
  LET playerStr == Trim(rest)
      parts     == Split(playerStr)
  IN  IF playerStr = <<>> THEN <<>>
      ELSE [i \in 1..Len(parts) |-> Trim(parts[i])]

\* playerStr ? playerStr.split(",").map(p => p.trim()).filter(Boolean) : []
ParsePlayers(rest) ==
  LET playerStr == Trim(rest)
      parts     == Split(playerStr)
  IN  IF playerStr = <<>> THEN <<>>
      ELSE SelectSeq([i \in 1..Len(parts) |-> Trim(parts[i])],
                     LAMBDA name : name # <<>>)

\* the record status writes; null is <<>>, a number n is <<n>>
ParseStatus(mt) ==
  IF mt # <<>>
    THEN [serverRunning |-> TRUE, online |-> <<ParseInt(mt[1].n)>>,
          max |-> <<ParseInt(mt[1].m)>>, players |-> ParsePlayers(mt[1].rest)]
    ELSE [serverRunning |-> TRUE, online |-> <<>>, max |-> <<>>,
          players |-> <<>>]

\* status.execute from the match on
Parse ==
  /\ parsed = <<>>
  /\ parsed' = <<ParseStatus(match)>>
  /\ UNCHANGED <<envVars, ctlVars, obsVars, hist, match, other>>

\* ---------------------------------------------------- specifications
InitStop == InitWith({<<>>})

NextStop ==
  \/ InvokeHist({"stopMinecraftServer"})
  \/ StopStep
  \/ ReturnHist
  \/ JavaDies \/ JavaSpawns \/ SessionDies

SpecStop == InitStop /\ [][NextStop]_vars


InitStart == InitWith({<<>>, <<"done">>})

NextStart ==
  \/ Invoke({"startMinecraftServer"})
  \/ StartStep
  \/ Return
  \/ JavaDies \/ JavaSpawns \/ SessionDies \/ AppendLine({"noise", "done"})

SpecStart == InitStart /\ [][NextStart]_vars


InitQuery == InitWith({<<>>, <<"noise">>})

NextQuery ==
  \/ Invoke({"status", "collectMetrics"})
  \/ QueryStep
  \/ Return
  \/ JavaDies \/ JavaSpawns \/ SessionDies \/ AppendLine({"noise"}) \/ Respond

SpecQuery == InitQuery /\ [][NextQuery]_vars

\* Every method called while the host is not configured or not reachable:
\* the steps up to the point where each method returns or throws.
InitAbsent == InitWith({<<>>})

NextAbsent ==
  \/ InvokeOn(Ops, {"none", "down"})
  \/ CmdGate \/ CmdTmuxCheck
  \/ WarnGate \/ WarnTmuxCheck
  \/ StopGate \/ StopReach
  \/ QueryGate \/ QueryReach
  \/ StartGate \/ StartWait
  \/ Return
  \/ JavaDies \/ JavaSpawns \/ SessionDies

SpecAbsent == InitAbsent /\ [][NextAbsent]_vars


\* say, op and deop alone.
InitCmd == InitWith({<<>>})

NextCmd ==
  \/ Invoke({"say", "op", "deop"})
  \/ CmdStep
  \/ Return
  \/ JavaDies \/ JavaSpawns \/ SessionDies

SpecCmd == InitCmd /\ [][NextCmd]_vars


\* warnShutdown alone.
InitWarn == InitWith({<<>>})

NextWarn ==
  \/ Invoke({"warnShutdown"})
  \/ WarnStep
  \/ Return
  \/ JavaDies \/ JavaSpawns \/ SessionDies

SpecWarn == InitWarn /\ [][NextWarn]_vars


\* The parser alone, on every match value within the bounds.
InitParse ==
  /\ InitCall({<<>>}) /\ session /\ javaPid = 1
  /\ match \in Matches /\ parsed = <<>>
  /\ other = Parked(2, IdleFrame, TRUE)

NextParse == Parse

SpecParse == InitParse /\ [][NextParse]_vars


\* Every method, one call at a time.
Init == InitWith({<<>>})

Next ==
  \/ Invoke(Ops)
  \/ CmdStep \/ WarnStep \/ StopStep \/ QueryStep \/ StartStep
  \/ Return
  \/ JavaDies \/ JavaSpawns \/ SessionDies
  \/ AppendLine({"done"}) \/ Respond

Spec == Init /\ [][Next]_vars


\* Two callers on one session name: caller 1 starts the server, caller 2
\* stops it or asks for its status; with `serial` false their calls overlap.
InitOverlap ==
  /\ InitCall({<<>>}) /\ match = <<>> /\ parsed = <<>>
  /\ \E sr \in BOOLEAN : other = Parked(2, IdleFrame, sr)

InvokeOverlap ==
  IF Caller = 1
    THEN InvokeOn({"startMinecraftServer"}, {"up"})
    ELSE InvokeOn({"stopMinecraftServer", "status"}, {"up"})

NextOverlap ==
  \/ InvokeOverlap
  \/ StartGate \/ StartWait \/ StartKillStale \/ StartTruncate
  \/ (\E ok \in BOOLEAN : StartNew(ok))
  \/ StartLogCheck(0) \/ StartTmuxCheck(0)
  \/ StartDead \/ StartSleep \/ StartTimeout \/ StartWrite
  \/ StopGate \/ StopReach \/ StopTmuxCheck \/ StopJavaCheck \/ StopSend
  \/ StopPid \/ StopSleep \/ StopCheck(0)
  \/ StopAfter \/ StopKill \/ StopWrite
  \/ QueryStep
  \/ Return
  \/ Switch
  \/ JavaDies \/ AppendLine({"done"})

SpecOverlap == InitOverlap /\ [][NextOverlap]_vars


\* The two bounded waits, start and stop on a reachable host. Each method
\* runs to completion: once called, the controller keeps taking its next
\* step (every remote command returns); the host is under no such
\* obligation: the process may exit and the session may end at any moment,
\* or never.
NextWait ==
  \/ InvokeOn({"startMinecraftServer", "stopMinecraftServer"}, {"up"})
  \/ StartStep \/ StopStep
  \/ Return
  \/ JavaDies \/ SessionDies
  \/ AppendLine({"done"})

SpecWait == Init /\ [][NextWait]_vars /\ WF_vars(StartStep \/ StopStep)


\* Every method, one call at a time; the hosted process writes only its
\* ready line.
NextRecord ==
  \/ Invoke(Ops)
  \/ CmdStep \/ WarnStep \/ StopStep \/ QueryStep \/ StartStep
  \/ Return
  \/ JavaDies \/ JavaSpawns \/ SessionDies
  \/ AppendLine({"done"})

SpecRecord == Init /\ [][NextRecord]_vars


\* ------------------------------------------------------------- claims
Kills == Len(SelectSeq(sent, LAMBDA c : c = "kill"))

StopDone == IsStop /\ pc = "done"

\* the run passed the "already stopped" test
StopRan == StopDone /\ sink[1].alreadyStopped = "false"

\* C1: every stopMinecraftServer call made on an already stopped target (no
\* host, host unreachable, or neither session nor hosted process) returns
\* one record with alreadyStopped = true and success = true, throws nothing,
\* sends no command and makes no liveness check; so do two such calls in a
\* row.
C1_StopTwiceAlreadyStopped ==
  /\ \A i \in 1..Len(hist) :
       hist[i].pre => /\ hist[i].sink = <<AlreadyStoppedRec>>
                      /\ hist[i].err = "none"
                      /\ hist[i].quiet
  /\ (IsStop /\ pre) => /\ sent = <<>> /\ polls = 0 /\ err = "none"
                        /\ pc \in {"gate", "stop_reach", "stop_tmux",
                                   "stop_java", "done"}
                        /\ (pc = "done" => sink = <<AlreadyStoppedRec>>)

C1_Witness ==
  /\ Len(hist) = 2
  /\ hist[1].pre /\ hist[2].pre
  /\ hist[1].host = "up" /\ hist[2].host = "up"
  /\ hist[1].sink = <<AlreadyStoppedRec>> /\ hist[2].sink = <<AlreadyStoppedRec>>

\* C2: a stopMinecraftServer run that passes the "already stopped" test
\* kills the session exactly once, after the liveness polling has ended and
\* before the record is written, whether or not it timed out; when it has
\* returned with alreadyStopped = false the session does not exist.
C2_KillOnceAfterPolling ==
  /\ (IsStop /\ pc \in {"stop_send", "stop_pid", "stop_sleep", "stop_check",
                        "stop_after", "stop_kill"})
       => (Kills = 0 /\ sink = <<>>)
  /\ (IsStop /\ pc = "stop_write") => (Kills = 1 /\ sink = <<>> /\ ~session)
  /\ StopRan => (Kills = 1 /\ sent[Len(sent)] = "kill" /\ ~session)
  /\ (StopDone /\ ~StopRan) => Kills = 0

C2_Witness ==
  /\ Len(hist) = 1 /\ hist[1].sink = <<StoppedRec(TRUE, "up")>>
  /\ StopRan /\ sink = <<StoppedRec(FALSE, "up")>> /\ ~session


\* the poll loop has ended and timedOut has its final value
StopPolled == (IsStop /\ pc \in {"stop_kill", "stop_write"}) \/ StopRan

\* every remote command of the poll loop returned at once
NoLag == now = StopPollInterval * polls

\* C3 as stated: death seen at the second check gives timedOut = false; a
\* pid that never disappears gives timedOut = true at exactly the deadline;
\* the session is killed either way.
C3_TimedOutExactlyAtDeadline ==
  /\ StopPolled =>
       /\ (sawDead /\ polls = 2) => ~timedOut
       /\ ~sawDead => (timedOut /\ now = PollTimeout)
  /\ StopRan => ~session

\* C3 as amended: death seen at the second check gives timedOut = false; a
\* pid that never disappears gives timedOut = true no earlier than the
\* deadline and less than one poll interval plus the round trip of the last
\* liveness check after it, exactly at the deadline when the checks take no
\* time; the session is killed either way.
C3_TimedOutFromDeadline ==
  /\ StopPolled =>
       /\ (sawDead /\ polls = 2) => ~timedOut
       /\ ~sawDead =>
            /\ timedOut
            /\ now >= PollTimeout
            /\ now < PollTimeout + StopPollInterval + tickLag
            /\ NoLag => now = PollTimeout
  /\ StopRan => (~session /\ sink = <<StoppedRec(timedOut, "up")>>)

C3_Witness ==
  /\ Len(hist) = 1 /\ hist[1].sink = <<StoppedRec(FALSE, "up")>>
  /\ StopRan /\ ~sawDead /\ timedOut /\ now > PollTimeout /\ ~session

\* C4: timedOut is false exactly when a liveness check saw the tracked
\* process dead and true exactly when the polling ended at the deadline
\* without one; the record has success = true.
C4_TimedOutIffNoDeathSeen ==
  StopPolled => /\ (timedOut <=> ~sawDead)
                /\ (StopRan => sink[1].success = "true")


\* the readiness poller has reported TIMED_OUT / DEAD
TimedOutReported ==
  IsStart /\ (pc = "start_timeout" \/ err = "did not become ready")

DeadReported ==
  IsStart /\ (pc = "start_dead" \/ err = "exited before becoming ready")

\* C5 as stated: TIMED_OUT is reported no earlier than the timeout and
\* within one poll interval of it.
C5_TimedOutWithinOnePoll ==
  TimedOutReported => (now >= ReadyTimeout /\ now <= ReadyTimeout + ReadyPoll)

\* C5 as amended: with no ready marker in the log and the session alive at
\* every check, TIMED_OUT is reported no earlier than the timeout and less
\* than one poll interval plus the round trips of the last tick's two
\* remote checks after it.
C5_TimedOutAfterTimeout ==
  TimedOutReported =>
    /\ now >= ReadyTimeout
    /\ now < ReadyTimeout + ReadyPoll + tickLag
    /\ ~serverReady /\ sink = <<>>

C5_Witness ==
  /\ TimedOutReported /\ pc = "failed" /\ session /\ ~HasMarker(log)
  /\ now > ReadyTimeout + ReadyPoll

C7_FinalCheckBeforeTimeout ==
  /\ (IsStart /\ pc = "start_timeout") => ~wake.marker
  /\ StopPolled => ~(sawDead /\ timedOut)


\* the record an operation writes when the remote environment is absent
AbsentRec(o) ==
  IF o \in {"say", "op", "deop", "warnShutdown"} THEN Skipped("true")
  ELSE IF o = "stopMinecraftServer" THEN AlreadyStoppedRec
  ELSE IF o = "status" THEN NotRunningRec
  ELSE MetricsDownRec

GatedOps == {"say", "op", "deop", "warnShutdown", "stopMinecraftServer",
             "status"}

\* C8 as stated: with no host configured, say, op, deop, warnShutdown,
\* stopMinecraftServer and status make no remote call, throw nothing and
\* return their skipped / already-stopped / not-running record, whatever the
\* argument.
C8_NoHostNoError ==
  (host = "none" /\ op \in GatedOps) =>
    /\ ~remote /\ sent = <<>> /\ err = "none"
    /\ Finished => (pc = "done" /\ sink = <<AbsentRec(op)>>)

\* C8 as amended: with no host configured these operations make no remote
\* call; with a non-empty argument (warnShutdown, stopMinecraftServer and
\* status take none) they throw nothing and return their skipped /
\* already-stopped / not-running record; say, op and deop called with an
\* empty message or player name throw "... is required" and write nothing.
C8_NoHostNoRemote ==
  (host = "none" /\ op \in GatedOps) =>
    /\ ~remote /\ sent = <<>>
    /\ arg = "text" =>
         /\ err = "none"
         /\ Finished => (pc = "done" /\ sink = <<AbsentRec(op)>>)
    /\ arg = "empty" =>
         /\ op \in {"say", "op", "deop"} /\ sink = <<>>
         /\ Finished => (pc = "failed" /\ err = "argument is required")

C8_Witness ==
  /\ host = "none" /\ op = "say" /\ arg = "text" /\ pc = "done"
  /\ sink = <<Skipped("true")>> /\ ~remote

\* C9 as stated: with the host not configured or unreachable, every
\* operation (startMinecraftServer included) returns a record instead of
\* failing with an error.
C9_AbsentHostNeverFails ==
  (Finished /\ host \in {"none", "down"} /\ arg = "text") =>
    (pc = "done" /\ err = "none" /\ Len(sink) = 1)

\* C9 as amended: with the host not configured or unreachable, say, op,
\* deop, warnShutdown, stopMinecraftServer, status and collectMetrics return
\* the record of the state they would produce (skipped / already stopped /
\* not running) and send no command; startMinecraftServer throws and writes
\* no record.
C9_AbsentHostResult ==
  (Finished /\ host \in {"none", "down"} /\ arg = "text") =>
    /\ sent = <<>>
    /\ IF IsStart
         THEN /\ pc = "failed" /\ sink = <<>>
              /\ err = IF host = "none" THEN "sshHost is required"
                       ELSE "SSH not reachable"
         ELSE pc = "done" /\ err = "none" /\ sink = <<AbsentRec(op)>>

C9_Witness ==
  /\ Finished /\ host = "down" /\ op = "collectMetrics"
  /\ sink = <<MetricsDownRec>> /\ remote


ListSent == \E k \in 1..Len(sent) : sent[k] = "list"

\* a response line at index i of the log is among the lines read by the tail
InTail(i, tail) ==
  /\ i > lineCount /\ i - lineCount <= Len(tail)
  /\ tail[i - lineCount] = log[i]

\* C10 as stated: in a status or collectMetrics query the line count is
\* never taken after 'list' is sent, and every line the hosted process
\* appends in response to that 'list' has index > watermark and is among
\* the lines the tail returned.
C10_EveryResponseInTail ==
  /\ (IsQuery /\ pc = "q_wc") => ~ListSent
  /\ (IsQuery /\ pc \in {"q_write", "done"}) =>
       \A i \in respIdx : InTail(i, newLines)

\* C10 as amended: in a status or collectMetrics query the steps run in the
\* order session check, line count, send 'list', settle, tail; the line
\* count is taken before 'list' is sent, so every response line has index >
\* watermark, and every response line appended by the time the tail is read
\* is among the lines the tail returns. A response appended after the tail
\* was read (a settle interval too short) is not in the result.
C10_WatermarkBeforeSend ==
  [][/\ (pc = "q_tmux" /\ pc' \notin {"q_tmux", "done"}) => pc' = "q_wc"
     /\ (pc = "q_wc" /\ pc' # "q_wc") =>
          ~ListSent /\ lineCount' <= Len(log) /\ pc' = "q_send"
     /\ (pc = "q_send" /\ pc' # "q_send") =>
          sent' = Append(sent, "list") /\ lineCount' = lineCount
          /\ pc' = "q_settle"
     /\ (pc = "q_settle" /\ pc' # "q_settle") => pc' = "q_tail"
     /\ (pc = "q_tail" /\ pc' # "q_tail") =>
          \A i \in respIdx : InTail(i, newLines')
     /\ IsQuery => \A i \in respIdx : i > lineCount]_vars

C10_Witness ==
  /\ IsQuery /\ pc = "q_write" /\ lineCount > 0 /\ respIdx # {}
  /\ \A i \in respIdx : InTail(i, newLines)


StartPolling ==
  IsStart /\ pc \in {"start_log", "start_tmux", "start_sleep", "start_dead",
                     "start_timeout", "start_write"}

\* C12: startMinecraftServer issues the kill of the session before it
\* creates the session, and the kill never fails the start, whether a stale
\* session existed or not; creation is never attempted while a session of
\* that name exists (no duplicate), and a session that exists while
\* readiness is polled was created by this start after its kill.
C12_KillBeforeCreate ==
  [][/\ (pc = "start_kill" /\ pc' # "start_kill") =>
          /\ ~session' /\ err' = "none" /\ pc' = "start_trunc"
          /\ sent' = Append(sent, "kill")
     /\ (pc = "start_new") => (~session /\ sent = <<"kill", "truncate">>)
     /\ (IsStart /\ ~session /\ session') =>
          (pc = "start_new" /\ pc' # "failed" /\ sent' = Append(sent, "new"))
     /\ StartPolling => sent = <<"kill", "truncate", "new">>]_vars

C12_Witness ==
  /\ StartPolling /\ pc = "start_log" /\ session
  /\ sent = <<"kill", "truncate", "new">>
  /\ ~pre /\ javaPid = 0 /\ gen = 0


Truncations == Len(SelectSeq(sent, LAMBDA c : c = "truncate"))

\* C13: one startMinecraftServer run empties the log exactly once, before
\* it creates the session and before its first readiness check; from then
\* on the run only sees the log grow, and it reports READY only when the
\* log, which holds nothing but lines appended after the truncation,
\* contains the ready marker: a stale marker line is never taken as READY.
C13_TruncateOnceBeforeStart ==
  [][/\ (pc = "start_trunc" /\ pc' # "start_trunc") =>
          /\ log' = <<>> /\ Truncations = 0 /\ ~session
          /\ sent' = Append(sent, "truncate") /\ pc' = "start_new"
     /\ (IsStart /\ pc # "start_trunc") =>
          /\ Len(log) <= Len(log')
          /\ \A k \in 1..Len(log) : log'[k] = log[k]
     /\ (pc = "start_new" \/ StartPolling) => Truncations = 1
     /\ (IsStart /\ ~serverReady /\ serverReady') =>
          /\ pc = "start_log" /\ HasMarker(log) /\ Truncations = 1
          /\ pc' = "start_write"
     /\ (pc = "start_log" /\ pc' # "start_log" /\ ~HasMarker(log)) =>
          ~serverReady' /\ pc' = "start_tmux"]_vars

C13_Witness ==
  /\ IsStart /\ pc = "start_write" /\ serverReady /\ HasMarker(log)
  /\ Truncations = 1


PollerFailed == err \in {"exited before becoming ready", "did not become ready"}

\* C14: startMinecraftServer writes its record (serverReady = true) only
\* when a readiness check found the ready marker in the log; when the poller
\* ends in DEAD or TIMED_OUT the call throws an error whose message carries
\* what `cat startLog` printed, and writes no record.
C14_ReadyRecordOnlyOnMarker ==
  /\ (IsStart /\ serverReady) => HasMarker(log)
  /\ (IsStart /\ sink # <<>>) =>
       /\ pc = "done" /\ sink = <<ReadyRec(host)>>
       /\ serverReady /\ err = "none" /\ startOutput = ""
  /\ (IsStart /\ pc = "done") => sink = <<ReadyRec(host)>>
  /\ (IsStart /\ PollerFailed) =>
       /\ pc = "failed" /\ sink = <<>> /\ ~serverReady
       /\ startOutput \in StartOutputs
  /\ (IsStart /\ pc = "failed") => (err # "none" /\ sink = <<>>)

C14_Witness ==
  /\ IsStart /\ pc = "failed" /\ err = "exited before becoming ready"
  /\ startOutput = "start.sh output" /\ sink = <<>> /\ ~session


CreateFailed == err = "Failed to start tmux session"

\* C15: when `tmux new-session` exits non-zero, startMinecraftServer throws
\* at once: it makes no readiness check and no further remote command, and
\* writes no record; when it exits zero the call enters the readiness loop
\* with serverReady false, and only a log check that finds the marker can
\* report readiness.
C15_CreateFailureAborts ==
  [][/\ (pc = "start_new" /\ pc' # "start_new") =>
          IF session'
            THEN /\ pc' = "start_log" /\ ~serverReady' /\ sink' = <<>>
                 /\ err' = "none" /\ sent' = Append(sent, "new")
            ELSE /\ pc' = "failed" /\ CreateFailed' /\ sink' = <<>>
                 /\ sent' = sent /\ ~serverReady'
     /\ (IsStart /\ CreateFailed) =>
          /\ pc = "failed" /\ sink = <<>> /\ ~serverReady
          /\ sent = <<"kill", "truncate">> /\ now = 0 /\ tickLag = 0
          /\ wake = Awake /\ startOutput = ""
          /\ pc' \in {"failed", "idle"}
          /\ (pc' = "failed" => (sent' = sent /\ sink' = sink /\ now' = now))
     /\ (IsStart /\ ~serverReady /\ serverReady') =>
          (pc = "start_log" /\ HasMarker(log))]_vars

C15_Witness ==
  /\ IsStart /\ CreateFailed /\ pc = "failed" /\ sink = <<>>
  /\ sent = <<"kill", "truncate">> /\ ~session


\* C16: when the host is reachable and `tmux has-session` finds no session,
\* status writes { serverRunning: false } and returns without an error; it
\* takes no line count and sends no 'list' into any session.
C16_NoSessionNotRunning ==
  [][(op = "status" /\ pc = "q_tmux" /\ pc' # "q_tmux" /\ ~session) =>
       /\ host = "up"
       /\ pc' = "done" /\ sink' = <<NotRunningRec>> /\ err' = "none"
       /\ sent' = <<>> /\ pending' = pending
       /\ wcResult' = 0 /\ lineCount' = 0 /\ newLines' = <<>>]_vars

C16_Witness ==
  /\ op = "status" /\ host = "up" /\ pc = "done" /\ ~session
  /\ sink = <<NotRunningRec>> /\ err = "none" /\ sent = <<>> /\ remote


NoResponseIn(ls) == \A k \in 1..Len(ls) : ~IsResponse(ls[k])

\* C17: when the session exists and the lines read after the watermark hold
\* no player-list response, status writes serverRunning = true with
\* online = null, max = null and players = [], and throws nothing.
C17_UnmatchedIsUndetermined ==
  [][(op = "status" /\ pc = "q_write" /\ pc' # "q_write"
        /\ NoResponseIn(newLines)) =>
       /\ pc' = "done" /\ err' = "none" /\ Len(sink') = 1
       /\ sink'[1].serverRunning = "true" /\ sink'[1].online = "null"
       /\ sink'[1].max = "null" /\ sink'[1].players = <<>>]_vars

C17_Witness ==
  /\ op = "status" /\ pc = "done" /\ err = "none" /\ Len(sink) = 1
  /\ newLines # <<>> /\ NoResponseIn(newLines)
  /\ sink[1].serverRunning = "true" /\ sink[1].online = "null"
  /\ sink[1].players = <<>> /\ "list" = sent[1]


\* C18: every record written by a query (status or collectMetrics) shows an
\* undetermined player count as null, never as 0: a record of a running
\* server with online = 0 is written only when the tail held a response
\* line stating 0 players.
C18_ZeroOnlyWhenMatched ==
  (IsQuery /\ pc = "done") =>
    \A k \in 1..Len(sink) :
      (sink[k].serverRunning = "true" /\ sink[k].online = "0") =>
        (FirstMatch(newLines) # 0 /\ Online(newLines[FirstMatch(newLines)]) = "0")


\* the characters of a text that belong to names
Letters(t) == SelectSeq(t, LAMBDA c : c \notin {" ", ","})

RECURSIVE Concat(_)
Concat(ss) == IF ss = <<>> THEN <<>> ELSE Head(ss) \o Concat(Tail(ss))

\* positions where a name begins: the first non-blank character of a
\* comma-delimited segment
NameStarts(t) ==
  {i \in 1..Len(t) :
     /\ t[i] \notin {" ", ","}
     /\ \A j \in 1..(i - 1) :
          (\A k \in j..(i - 1) : t[k] # ",") => t[j] = " "}

\* the text with one blank put after its k-th character
BlankAfter(t, k) == SubSeq(t, 1, k) \o <<" ">> \o SubSeq(t, k + 1, Len(t))

\* C19: the parser turns "There are N of a max of M players online:" followed
\* by a list of names into online = N, max = M and the names in order; commas
\* with nothing between them, a trailing comma and blanks around the names
\* do not change the result; a match with nothing after the colon gives
\* players = [] with numeric online and max, which differs from the
\* undetermined record (online = null).
C19_ParseRoundTrip ==
  /\ (parsed # <<>> /\ match = <<>>) =>
       (parsed[1].online = <<>> /\ parsed[1].max = <<>>
          /\ parsed[1].players = <<>>)
  /\ (parsed # <<>> /\ match # <<>>) =>
       LET g     == match[1]
           r     == parsed[1]
           names == r.players
       IN  /\ Len(r.online) = 1 /\ Len(r.max) = 1
           /\ r.online[1] \in Nat /\ r.max[1] \in Nat
           /\ g.n = <<"2">> => r.online = <<2>>
           /\ g.n = <<"0">> => r.online = <<0>>
           /\ g.m = <<"2", "0">> => r.max = <<20>>
           /\ \A i \in 1..Len(names) :
                /\ names[i] # <<>>
                /\ \A k \in 1..Len(names[i]) : names[i][k] # ","
                /\ names[i][1] # " " /\ names[i][Len(names[i])] # " "
           /\ Len(names) = Cardinality(NameStarts(g.rest))
           /\ Letters(Concat(names)) = Letters(g.rest)
           /\ g.rest = <<"a", ",", " ", "b">> => names = <<<<"a">>, <<"b">>>>
           /\ ParsePlayers(g.rest \o <<",">>) = names
           /\ ParsePlayers(g.rest \o <<" ">>) = names
           /\ ParsePlayers(<<" ">> \o g.rest) = names
           /\ \A k \in 1..Len(g.rest) :
                g.rest[k] = "," => ParsePlayers(BlankAfter(g.rest, k)) = names
           /\ Letters(g.rest) = <<>> =>
                (names = <<>> /\ r # ParseStatus(<<>>))

C19_Witness ==
  /\ parsed # <<>> /\ match # <<>>
  /\ match[1].n = <<"2">> /\ match[1].m = <<"2", "0">>
  /\ match[1].rest = <<"a", ",", " ", "b">>
  /\ parsed[1].online = <<2>> /\ parsed[1].max = <<20>>
  /\ parsed[1].players = <<<<"a">>, <<"b">>>>


Warned == <<"say", "say", "say", "pause">>

\* C20: when the session exists at its session check, warnShutdown sends
\* exactly 3 'say' commands, then pauses once, then writes success with
\* skipped = false; when the session does not exist (or the host is absent)
\* it sends nothing, does not pause and writes success with skipped = true;
\* it never throws.
C20_WarnThreeThenPause ==
  [][/\ IsWarn => (err = "none" /\ pc # "failed" /\ err' = "none")
     /\ (pc = "warn_tmux" /\ pc' # "warn_tmux") =>
          IF session /\ host = "up"
            THEN pc' = "warn_send" /\ sent' = <<>> /\ sink' = <<>>
            ELSE pc' = "done" /\ sent' = <<>> /\ sink' = <<Skipped("true")>>
     /\ (IsWarn /\ pc \in {"warn_send", "warn_sleep"} /\ pc' # pc) =>
          /\ sent' = SubSeq(Warned, 1, Len(sent) + 1)
          /\ pc' \in {"warn_send", "warn_sleep", "done"}
          /\ (pc' = "done") <=> (sent' = Warned)
          /\ (pc' = "done") => sink' = <<Skipped("false")>>
     /\ (IsWarn /\ pc = "done") =>
          \/ sink = <<Skipped("false")>> /\ sent = Warned
          \/ sink = <<Skipped("true")>> /\ sent = <<>>]_vars

C20_Witness ==
  /\ IsWarn /\ pc = "done" /\ err = "none"
  /\ sink = <<Skipped("false")>> /\ sent = Warned


\* C21: say, op and deop, once past their argument check: when the session
\* check does not answer "exists" (session missing, or nothing printed
\* because the host is unreachable) they send no command and write success
\* with skipped = true; when it answers "exists" they send exactly one
\* command, their own, and write success with skipped = false.
C21_CmdOneOrSkipped ==
  [][/\ (pc = "cmd_tmux" /\ pc' # "cmd_tmux") =>
          /\ err' = "none" /\ sent' = <<>>
          /\ IF session /\ host = "up"
               THEN pc' = "cmd_send" /\ sink' = <<>>
               ELSE pc' = "done" /\ sink' = <<Skipped("true")>>
     /\ (pc = "cmd_send" /\ pc' # "cmd_send") =>
          /\ pc' = "done" /\ err' = "none"
          /\ sent' = <<op>> /\ sink' = <<Skipped("false")>>
     /\ (IsCmd /\ pc = "done") =>
          \/ sink = <<Skipped("false")>> /\ sent = <<op>> /\ host = "up"
          \/ sink = <<Skipped("true")>> /\ sent = <<>>]_vars

C21_Witness ==
  /\ op = "deop" /\ pc = "done" /\ host = "down" /\ remote /\ session
  /\ sink = <<Skipped("true")>> /\ sent = <<>>


\* the number of 'list' commands among the commands sent
Lists(q) == Cardinality({i \in 1..Len(q) : q[i] = "list"})

\* C22: no step of a status or collectMetrics call changes whether the
\* session exists, which process runs in it, or the log; while a query is
\* in progress the lines already in the log stay as they are (the log only
\* grows); and the call sends one 'list' into the session when it found the
\* session, none otherwise, and no other command.
C22_QueryLeavesServerAlone ==
  [][/\ (IsQuery /\ ~Finished /\ pc' # pc) =>
          /\ session' = session /\ javaPid' = javaPid /\ gen' = gen
          /\ log' = log
          /\ \A i \in 1..Len(sent') : sent'[i] \in {"list", "metrics"}
          /\ Lists(sent') = IF pc = "q_send" THEN 1 ELSE Lists(sent)
     /\ IsQuery =>
          /\ Len(log) <= Len(log')
          /\ \A k \in 1..Len(log) : log'[k] = log[k]
     /\ (IsQuery /\ pc = "done") =>
          Lists(sent) = IF sink[1].serverRunning = "true" THEN 1 ELSE 0]_vars

C22_Witness ==
  /\ op = "collectMetrics" /\ pc = "done" /\ Lists(sent) = 1
  /\ session /\ javaPid # 0 /\ log # <<>> /\ newLines # <<>>


\* what the call has done on the host so far
RemoteWork == <<remote, sent, polls>>

\* C23: a call that returns normally has written exactly one record, and
\* the write is its last step: no remote command of the call follows it; a
\* call that ends in an error, and a call still in progress, has written
\* none.
C23_OneRecordLast ==
  [][/\ (pc = "done") => (Len(sink) = 1 /\ err = "none")
     /\ (pc = "failed") => (sink = <<>> /\ err # "none")
     /\ (pc \notin {"done", "failed"}) => (sink = <<>> /\ err = "none")
     /\ (sink' # sink /\ pc # "done") =>
          /\ pc' = "done" /\ Len(sink') = 1 /\ sink = <<>>
     /\ (pc = "done" /\ pc' # "idle") =>
          /\ pc' = "done" /\ sink' = sink
          /\ RemoteWork' = RemoteWork]_vars

C23_Witness ==
  /\ IsStop /\ pc = "done" /\ Len(sink) = 1
  /\ sent = <<"stop", "kill">> /\ polls > 0


\* the two calls: the running one and the other caller's
Calls == {Running, other.frame}

InFlight(f) == f.pc \notin {"idle", "done", "failed"}

\* a start that created its session and polls for readiness finds the
\* session gone: in SpecOverlap only a kill-session of the controller ends a
\* session, and the start's own kill precedes its new-session
KillRace ==
  \E f \in Calls :
    /\ f.op = "startMinecraftServer"
    /\ f.pc \in {"start_log", "start_tmux", "start_sleep"}
    /\ ~session

\* a query holds a watermark beyond the end of the log: the log was
\* truncated between its `wc -l` and its `tail`
TruncRace ==
  \E f \in Calls :
    /\ f.op \in {"status", "collectMetrics"}
    /\ f.pc \in {"q_send", "q_settle", "q_tail"}
    /\ f.lineCount > Len(log)

\* C24: nothing in the controller keeps two calls apart. When the callers
\* take turns (each call returns before the next is issued) at most one call
\* is in flight, a session created by start is never killed under its
\* poller, start never reports that the process exited, and no truncation
\* falls between a query's watermark and its tail; the witness shows that
\* with overlapping calls stop's kill-session destroys the session start
\* has created and start ends in DEAD.
C24_NoRaceWhenSerial ==
  other.serial =>
    /\ ~(InFlight(Running) /\ InFlight(other.frame))
    /\ ~KillRace
    /\ ~TruncRace
    /\ \A f \in Calls : f.err # "exited before becoming ready"

C24_Witness ==
  /\ ~other.serial
  /\ IsStart /\ pc = "failed" /\ err = "exited before becoming ready"
  /\ sent = <<"kill", "truncate", "new">>
  /\ other.frame.op = "stopMinecraftServer"
  /\ other.frame.pc \in {"stop_write", "done"}
  /\ other.frame.obs[2] = <<"stop", "kill">>


\* C25: each readiness tick looks at the log first: when the log holds the
\* ready marker the tick ends READY whether or not the session exists, and
\* the session is not looked at; the session check runs only in a tick
\* whose log check did not find the marker, and only that check, finding
\* the session gone, leads to DEAD.
C25_LogBeforeSession ==
  [][/\ (pc = "start_log" /\ pc' # "start_log") =>
          IF HasMarker(log)
            THEN pc' = "start_write" /\ serverReady'
            ELSE pc' = "start_tmux" /\ ~serverReady'
     /\ (pc = "start_tmux") => ~serverReady
     /\ (pc = "start_tmux" /\ pc' # "start_tmux") =>
          /\ pc' = IF session THEN "start_sleep" ELSE "start_dead"
          /\ ~serverReady'
     /\ (pc # "start_dead" /\ pc' = "start_dead") =>
          pc = "start_tmux" /\ ~session
     /\ DeadReported => ~serverReady]_vars

C25_Witness ==
  /\ IsStart /\ pc = "done" /\ serverReady /\ sink = <<ReadyRec(host)>>
  /\ HasMarker(log) /\ ~session /\ now = 0


\* the readiness poller is between two of its checks
StartWaiting == IsStart /\ pc \in {"start_log", "start_tmux", "start_sleep"}

\* READY, DEAD or TIMED_OUT has been decided
StartTerminal ==
  IsStart /\ pc \in {"start_write", "start_dead", "start_timeout",
                     "done", "failed"}

StopWaiting == IsStop /\ pc \in {"stop_sleep", "stop_check"}

StopPollEnded == IsStop /\ pc \in {"stop_after", "stop_kill", "stop_write", "done"}

MaxTicks  == ReadyTimeout \div ReadyPoll

MaxChecks == PollTimeout \div StopPollInterval

\* C26: every bounded wait ends. The readiness poller, once waiting, reaches
\* READY, DEAD or TIMED_OUT, exactly one of them, and keeps it; a readiness
\* check is begun only before the timeout and consecutive checks are at
\* least one poll interval apart, so that at most 900/5 ticks are made. The
\* pid poll of stop ends, after at most 90/3 liveness checks, and makes no
\* check after the one that saw the process dead.
C26_WaitsTerminate ==
  /\ StartWaiting ~> StartTerminal
  /\ StopWaiting ~> StopPollEnded
  /\ [][/\ (IsStart /\ pc = "start_log") => now < ReadyTimeout
        /\ (IsStart /\ pc = "start_log") => now \div ReadyPoll < MaxTicks
        /\ (StartWaiting /\ pc' # "idle") => now' >= now
        /\ (pc = "start_sleep" /\ pc' # "start_sleep") =>
             /\ now' = now + ReadyPoll
             /\ pc' \in {"start_log", "start_timeout"}
        /\ (pc # "start_log" /\ pc' = "start_log") =>
             pc \in {"start_new", "start_sleep"}
        /\ (StartTerminal /\ pc' # "idle") =>
             /\ StartTerminal' /\ serverReady' = serverReady
             /\ (pc = "start_dead" /\ pc' # pc) =>
                  (pc' = "failed" /\ err' = "exited before becoming ready")
             /\ (pc = "start_timeout" /\ pc' # pc) =>
                  (pc' = "failed" /\ err' = "did not become ready")
             /\ (pc = "start_write" /\ pc' # pc) =>
                  (pc' = "done" /\ err' = "none")
             /\ (pc \in {"done", "failed"}) => (pc' = pc /\ err' = err)
        /\ IsStop => polls <= MaxChecks
        /\ (IsStop /\ polls' # polls /\ pc' # "idle") =>
             /\ pc = "stop_check" /\ ~sawDead /\ polls' = polls + 1
             /\ sawDead' => pc' = "stop_after"
        /\ (StopPollEnded /\ pc' # "idle") =>
             StopPollEnded' /\ polls' = polls]_vars

C26_Witness ==
  /\ IsStop /\ pc = "done" /\ polls = MaxChecks /\ sawDead
  /\ sink[1].timedOut = "true"


\* the number of 'stop' commands among the commands sent
Stops(q) == Cardinality({i \in 1..Len(q) : q[i] = "stop"})

\* stop: the pid has been captured
StopTracking ==
  IsStop /\ pc \in {"stop_sleep", "stop_check", "stop_after", "stop_kill",
                    "stop_write"}

\* C27: stopMinecraftServer sends 'stop' only when its session check found
\* the session, and at most once in a run; it reads the pid of the hosted
\* process after the step that sends 'stop' and before any liveness check;
\* the pid it tracks never changes afterwards, and every liveness check
\* answers for that pid, whatever else runs on the host by then.
C27_StopOnceThenTrackPid ==
  [][/\ (pc = "stop_tmux" /\ pc' # "stop_tmux") => tmuxExists' = session
     /\ (pc = "stop_send" /\ pc' # "stop_send") =>
          /\ sent = <<>> /\ polls = 0 /\ originalPid = 0
          /\ sent' = IF tmuxExists THEN <<"stop">> ELSE <<>>
          /\ pc' = "stop_pid" /\ originalPid' = 0
     /\ IsStop => Stops(sent) <= 1
     /\ (IsStop /\ Stops(sent') # Stops(sent) /\ pc' # "idle") =>
          pc = "stop_send" /\ tmuxExists
     /\ (pc = "stop_pid" /\ pc' # "stop_pid") =>
          /\ originalPid' = javaPid
          /\ polls = 0 /\ polls' = 0
          /\ pc' = "stop_sleep"
     /\ (IsStop /\ polls' # polls /\ pc' # "idle") =>
          /\ StopTracking /\ pc = "stop_check"
          /\ sawDead' = ~(originalPid # 0 /\ javaPid = originalPid)
     /\ (StopTracking /\ pc' # "idle") => originalPid' = originalPid]_vars

C27_Witness ==
  /\ IsStop /\ pc = "done" /\ sent = <<"stop", "kill">>
  /\ originalPid = 1 /\ javaPid = 2 /\ sawDead /\ polls > 1

====
